---- MODULE Spec2Model ----
(***************************************************************************)
(* Model of src/App.tsx: the feedback formatting chain (the chained        *)
(* String.replace calls, lines 234-256) and the App component's state      *)
(* handlers (handleVideoSelected, handleGenerateFeedback).                 *)
(*                                                                         *)
(* A string is a sequence of tokens.  A token is one character, except     *)
(* that an HTML tag ("<li>", "</strong>", ...) is one token: the chain     *)
(* only ever inserts and matches whole tags.                               *)
(***************************************************************************)
EXTENDS Integers, Sequences, FiniteSets, TLC

VARIABLES input, text, pc,
          selectedVideoFile, videoPreviewUrl, prompt, feedback, isLoading,
          error, request, objectUrls

fmtVars == <<input, text, pc>>
appVars == <<selectedVideoFile, videoPreviewUrl, prompt, feedback, isLoading,
             error, request, objectUrls>>
vars == <<input, text, pc, selectedVideoFile, videoPreviewUrl, prompt,
          feedback, isLoading, error, request, objectUrls>>

(***************************************************************************)
(* Bounds.                                                                 *)
(***************************************************************************)
MaxLines == 4

NL == "\n"
Digits == {"1", "2"}
OpenTags == {"<ul>", "<ol>"}
CloseTags == {"</ul>", "</ol>"}
Tags == {"<li>", "</li>", "<strong>", "</strong>"} \cup OpenTags \cup CloseTags

(***************************************************************************)
(* The lines the inputs are built from.                                    *)
(***************************************************************************)
Lines ==
  { <<>>,
    <<"-", " ", "a">>,
    <<"-", " ", "*", "*", "b", "*", "*">>,
    <<"1", ".", " ", "a">>,
    <<"1", "2", ".", " ", "b">>,
    <<"p">>,
    <<"p", " ", "*", "*", "g", "*", "*">>,
    <<"*", "*", "h", "*", "*">>,
    <<"*", "*", "a", "*", "*", "*", "*", "b">> }

HtmlLines ==
  { <<"</li>">>,
    <<"<strong>", "p">>,
    <<"p", "</strong>">>,
    <<"<li>", "p">> }

RECURSIVE Join(_)
Join(ls) ==
  IF Len(ls) = 0 THEN <<>>
  ELSE IF Len(ls) = 1 THEN ls[1]
  ELSE ls[1] \o <<NL>> \o Join(Tail(ls))

LineSeqs(S) == UNION { [1..n -> S] : n \in 1..MaxLines }
Inputs(S) == { Join(ls) : ls \in LineSeqs(S) }

(***************************************************************************)
(* Regular-expression helpers.                                             *)
(***************************************************************************)
\* ^ under the m flag: start of input or just after a line terminator
LineStart(s, i) == i = 1 \/ s[i - 1] = NL

\* greedy .* from i: index of the last token before the line terminator
RECURSIVE LineEnd(_, _)
LineEnd(s, i) ==
  IF i > Len(s) \/ s[i] = NL THEN i - 1 ELSE LineEnd(s, i + 1)

\* lazy .*? from j followed by the token sequence pat: index where pat
\* starts, 0 when a line terminator or the end comes first
MatchAt(s, i, pat) ==
  /\ i >= 1
  /\ i + Len(pat) - 1 <= Len(s)
  /\ \A k \in 1..Len(pat) : s[i + k - 1] = pat[k]

RECURSIVE LazyUntil(_, _, _)
LazyUntil(s, j, pat) ==
  IF j > Len(s) THEN 0
  ELSE IF MatchAt(s, j, pat) THEN j
  ELSE IF s[j] = NL THEN 0
  ELSE LazyUntil(s, j + 1, pat)

\* s.replace(/pat/g, rep) for a literal pattern
RECURSIVE ReplaceFrom(_, _, _, _)
ReplaceFrom(s, i, pat, rep) ==
  IF i > Len(s) THEN <<>>
  ELSE IF MatchAt(s, i, pat) THEN rep \o ReplaceFrom(s, i + Len(pat), pat, rep)
  ELSE <<s[i]>> \o ReplaceFrom(s, i + 1, pat, rep)

ReplaceAll(s, pat, rep) == ReplaceFrom(s, 1, pat, rep)

\* feedback.replace(/\*\*(.*?)\*\*/g, '<strong>$1</strong>')
Stars == <<"*", "*">>

RECURSIVE BoldFrom(_, _)
BoldFrom(s, i) ==
  IF i > Len(s) THEN <<>>
  ELSE LET j == IF MatchAt(s, i, Stars) THEN LazyUntil(s, i + 2, Stars) ELSE 0
       IN  IF j # 0
           THEN <<"<strong>">> \o SubSeq(s, i + 2, j - 1) \o <<"</strong>">>
                \o BoldFrom(s, j + 2)
           ELSE <<s[i]>> \o BoldFrom(s, i + 1)

\* the same replace with a greedy group, /\*\*(.*)\*\*/g
RECURSIVE LastStars(_, _)
LastStars(s, j) ==
  IF j > Len(s) \/ s[j] = NL THEN 0
  ELSE LET later == LastStars(s, j + 1)
       IN  IF later # 0 THEN later
           ELSE IF MatchAt(s, j, Stars) THEN j ELSE 0

RECURSIVE BoldGreedyFrom(_, _)
BoldGreedyFrom(s, i) ==
  IF i > Len(s) THEN <<>>
  ELSE LET j == IF MatchAt(s, i, Stars) THEN LastStars(s, i + 2) ELSE 0
       IN  IF j # 0
           THEN <<"<strong>">> \o SubSeq(s, i + 2, j - 1) \o <<"</strong>">>
                \o BoldGreedyFrom(s, j + 2)
           ELSE <<s[i]>> \o BoldGreedyFrom(s, i + 1)

BoldGreedy(s) == BoldGreedyFrom(s, 1)

Bold(s) == BoldFrom(s, 1)

\* .replace(/^- (.*)/gm, '<li>$1</li>')
BulletAt(s, i) == LineStart(s, i) /\ MatchAt(s, i, <<"-", " ">>)

RECURSIVE BulletsFrom(_, _)
BulletsFrom(s, i) ==
  IF i > Len(s) THEN <<>>
  ELSE IF BulletAt(s, i)
       THEN LET e == LineEnd(s, i + 2)
            IN  <<"<li>">> \o SubSeq(s, i + 2, e) \o <<"</li>">>
                \o BulletsFrom(s, e + 1)
       ELSE <<s[i]>> \o BulletsFrom(s, i + 1)

Bullets(s) == BulletsFrom(s, 1)

\* .replace(/^\d+\. (.*)/gm, '<li>$1</li>')
RECURSIVE DigitsEnd(_, _)
DigitsEnd(s, i) ==
  IF i <= Len(s) /\ s[i] \in Digits THEN DigitsEnd(s, i + 1) ELSE i

\* index of the first token of the group when ^\d+\.  matches at i, else 0
NumberedAt(s, i) ==
  IF LineStart(s, i) /\ i <= Len(s) /\ s[i] \in Digits
  THEN LET d == DigitsEnd(s, i)
       IN  IF MatchAt(s, d, <<".", " ">>) THEN d + 2 ELSE 0
  ELSE 0

RECURSIVE NumberedFrom(_, _)
NumberedFrom(s, i) ==
  IF i > Len(s) THEN <<>>
  ELSE LET c == NumberedAt(s, i)
       IN  IF c # 0
           THEN LET e == LineEnd(s, c)
                IN  <<"<li>">> \o SubSeq(s, c, e) \o <<"</li>">>
                    \o NumberedFrom(s, e + 1)
           ELSE <<s[i]>> \o NumberedFrom(s, i + 1)

Numbered(s) == NumberedFrom(s, 1)

(***************************************************************************)
(* The three boundary rewrites.                                            *)
(***************************************************************************)
StartUl(s) == ReplaceAll(s, <<"</strong>", NL, "<li>">>,
                            <<"</strong>", "<ul>", "<li>">>)

EndUl(s) == ReplaceAll(s, <<"</li>", NL, "<strong>">>,
                          <<"</li>", "</ul>", "<strong>">>)

FixBlank(s) == ReplaceAll(s, <<"</li>", NL, NL, "<li>">>,
                             <<"</li>", "</ul>", "<strong>">>)

\* .replace(/<li>.*?<\/li>/g, (match, offset, original) => ...)
\* String.prototype.lastIndexOf on tokens: 0-based index, -1 when absent
RECURSIVE LastIndexOf(_, _)
LastIndexOf(s, tok) ==
  IF Len(s) = 0 THEN -1
  ELSE IF s[Len(s)] = tok THEN Len(s) - 1
  ELSE LastIndexOf(SubSeq(s, 1, Len(s) - 1), tok)

Max(a, b) == IF a >= b THEN a ELSE b

LiCallback(match, offset, original) ==
  LET before == SubSeq(original, 1, offset)
      parentUl == LastIndexOf(before, "<ul>")
      parentOl == LastIndexOf(before, "<ol>")
      lastListEnd == Max(LastIndexOf(before, "</ul>"),
                         LastIndexOf(before, "</ol>"))
  IN  IF parentUl > lastListEnd \/ parentOl > lastListEnd THEN match
      ELSE IF MatchAt(match, 1, <<"-", " ">>)
           THEN <<"<ul>">> \o match \o <<"</ul>">>
      ELSE IF NumberedAt(match, 1) # 0
           THEN <<"<ol>">> \o match \o <<"</ol>">>
      ELSE match

RECURSIVE WrapFrom(_, _)
WrapFrom(s, i) ==
  IF i > Len(s) THEN <<>>
  ELSE LET j == IF s[i] = "<li>" THEN LazyUntil(s, i + 1, <<"</li>">>) ELSE 0
       IN  IF j # 0
           THEN LiCallback(SubSeq(s, i, j), i - 1, s) \o WrapFrom(s, j + 1)
           ELSE <<s[i]>> \o WrapFrom(s, i + 1)

WrapLi(s) == WrapFrom(s, 1)

\* the whole chain
Format(s) == WrapLi(FixBlank(EndUl(StartUl(Numbered(Bullets(Bold(s)))))))

(***************************************************************************)
(* App: the component's state and its handlers.                            *)
(***************************************************************************)
Files == {"v1", "v2", "v3"}
Prompts == {"p0", "p1"}
NoFeedback == [file |-> "null", prompt |-> "null"]
NoRequest == [stage |-> "none", file |-> "null", prompt |-> "null"]

\* URL.createObjectURL(file)
CreateObjectURL(file) == <<"blob", file>>

AppInit ==
  /\ selectedVideoFile = "null"
  /\ videoPreviewUrl = <<>>
  /\ prompt = "p0"
  /\ feedback = NoFeedback
  /\ isLoading = FALSE
  /\ error = "null"
  /\ request = NoRequest
  /\ objectUrls = {}

\* handleVideoSelected(file), file = "null" for "Remover Video"
HandleVideoSelected(file) ==
  /\ selectedVideoFile' = file
  /\ IF file # "null"
     THEN /\ videoPreviewUrl' = CreateObjectURL(file)
          /\ objectUrls' = (objectUrls \ {videoPreviewUrl})
                             \cup {CreateObjectURL(file)}
     ELSE /\ videoPreviewUrl' = <<>>
          /\ objectUrls' = objectUrls \ {videoPreviewUrl}
  /\ feedback' = NoFeedback
  /\ error' = "null"
  /\ UNCHANGED <<prompt, isLoading, request, fmtVars>>

VideoSelected == \E file \in Files \cup {"null"} : HandleVideoSelected(file)

\* the textarea's onChange
SetPrompt ==
  /\ \E p \in Prompts \ {prompt} : prompt' = p
  /\ UNCHANGED <<selectedVideoFile, videoPreviewUrl, feedback, isLoading,
                 error, request, objectUrls, fmtVars>>

\* handleGenerateFeedback up to its first await; the button is disabled
\* while isLoading or without a selected file
HandleGenerateFeedback ==
  /\ ~(isLoading \/ selectedVideoFile = "null")
  /\ IF selectedVideoFile = "null"
     THEN /\ error' = "noVideo"
          /\ UNCHANGED <<isLoading, feedback, request>>
     ELSE /\ isLoading' = TRUE
          /\ error' = "null"
          /\ feedback' = NoFeedback
          /\ request' = [stage |-> "convert", file |-> selectedVideoFile,
                         prompt |-> prompt]
  /\ UNCHANGED <<selectedVideoFile, videoPreviewUrl, prompt, objectUrls,
                 fmtVars>>

\* convertFileToBase64 resolves; generateVideoFeedback is called
ConvertResolved ==
  /\ request.stage = "convert"
  /\ request' = [request EXCEPT !.stage = "generate"]
  /\ UNCHANGED <<selectedVideoFile, videoPreviewUrl, prompt, feedback,
                 isLoading, error, objectUrls, fmtVars>>

\* either await rejects: catch (err.message), then finally
RequestRejected ==
  /\ request.stage \in {"convert", "generate"}
  /\ error' = IF request.stage = "convert" THEN "convertFailed"
                                            ELSE "generateFailed"
  /\ isLoading' = FALSE
  /\ request' = NoRequest
  /\ UNCHANGED <<selectedVideoFile, videoPreviewUrl, prompt, feedback,
                 objectUrls, fmtVars>>

\* generateVideoFeedback resolves: setFeedback(aiFeedback), then finally
GenerateResolved ==
  /\ request.stage = "generate"
  /\ feedback' = [file |-> request.file, prompt |-> request.prompt]
  /\ isLoading' = FALSE
  /\ request' = NoRequest
  /\ UNCHANGED <<selectedVideoFile, videoPreviewUrl, prompt, error,
                 objectUrls, fmtVars>>

(***************************************************************************)
(* The chain as a state machine, one step per replace call.                *)
(***************************************************************************)
FmtInit(S) ==
  /\ input \in Inputs(S)
  /\ text = input
  /\ pc = "bold"

Init == FmtInit(Lines) /\ AppInit

InitRaw == FmtInit(Lines \cup HtmlLines) /\ AppInit

DoBold ==
  /\ pc = "bold"
  /\ text' = Bold(text)
  /\ pc' = "bullets"
  /\ UNCHANGED <<input, appVars>>

DoBullets ==
  /\ pc = "bullets"
  /\ text' = Bullets(text)
  /\ pc' = "numbered"
  /\ UNCHANGED <<input, appVars>>

DoNumbered ==
  /\ pc = "numbered"
  /\ text' = Numbered(text)
  /\ pc' = "startUl"
  /\ UNCHANGED <<input, appVars>>

DoStartUl ==
  /\ pc = "startUl"
  /\ text' = StartUl(text)
  /\ pc' = "endUl"
  /\ UNCHANGED <<input, appVars>>

DoEndUl ==
  /\ pc = "endUl"
  /\ text' = EndUl(text)
  /\ pc' = "fixBlank"
  /\ UNCHANGED <<input, appVars>>

DoFixBlank ==
  /\ pc = "fixBlank"
  /\ text' = FixBlank(text)
  /\ pc' = "wrapLi"
  /\ UNCHANGED <<input, appVars>>

DoWrapLi ==
  /\ pc = "wrapLi"
  /\ text' = WrapLi(text)
  /\ pc' = "done"
  /\ UNCHANGED <<input, appVars>>

Next ==
  \/ DoBold
  \/ DoBullets
  \/ DoNumbered
  \/ DoStartUl
  \/ DoEndUl
  \/ DoFixBlank
  \/ DoWrapLi

Spec == Init /\ [][Next]_vars

SpecRaw == InitRaw /\ [][Next]_vars

\* the component before any feedback is rendered
InitApp ==
  /\ input = <<>>
  /\ text = <<>>
  /\ pc = "idle"
  /\ AppInit

NextApp ==
  \/ VideoSelected
  \/ SetPrompt
  \/ HandleGenerateFeedback
  \/ ConvertResolved
  \/ RequestRejected
  \/ GenerateResolved

SpecApp == InitApp /\ [][NextApp]_vars

(***************************************************************************)
(* Vocabulary of the properties.                                           *)
(***************************************************************************)
Count(s, tok) == Cardinality({i \in 1..Len(s) : s[i] = tok})

From(s, i) == SubSeq(s, i, Len(s))

RECURSIVE SplitLines(_)
SplitLines(s) ==
  LET e == LineEnd(s, 1)
  IN  IF e = Len(s) THEN <<s>>
      ELSE <<SubSeq(s, 1, e)>> \o SplitLines(From(s, e + 2))

IsNotNL(t) == t # NL
StripNL(s) == SelectSeq(s, IsNotNL)

BulletLine(l) == BulletAt(l, 1)
NumberedLine(l) == NumberedAt(l, 1) # 0
ItemLine(l) == BulletLine(l) \/ NumberedLine(l)
PlainLine(l) == l # <<>> /\ ~ItemLine(l)

\* a line holds a paired ** ... **
HasPair(l) ==
  \E i, j \in 1..Len(l) :
    j >= i + 2 /\ MatchAt(l, i, Stars) /\ MatchAt(l, j, Stars)

\* the item element a list line stands for: its text after the marker,
\* bold spans rendered
ItemOf(l) ==
  <<"<li>">> \o Bold(From(l, IF BulletLine(l) THEN 3 ELSE NumberedAt(l, 1)))
  \o <<"</li>">>

RECURSIVE ItemsOf(_)
ItemsOf(ls) == IF ls = <<>> THEN <<>> ELSE ItemOf(Head(ls)) \o ItemsOf(Tail(ls))

\* the end of s lies inside an element opened by a tag of `open`
InsideOpen(s, open, close) ==
  \E i \in 1..Len(s) :
    s[i] \in open /\ \A j \in (i + 1)..Len(s) : s[j] \notin close

(***************************************************************************)
(* Claims.                                                                 *)
(***************************************************************************)

\* C1: in the finished output every </ul> is preceded by a not-yet-closed
\* <ul> and every </ol> by a not-yet-closed <ol> (no stray closing list tag).
C1_NoStrayClosingTag ==
  pc = "done" =>
    \A i \in 1..Len(text) :
      /\ text[i] = "</ul>" =>
           Count(SubSeq(text, 1, i - 1), "<ul>")
             > Count(SubSeq(text, 1, i - 1), "</ul>")
      /\ text[i] = "</ol>" =>
           Count(SubSeq(text, 1, i - 1), "<ol>")
             > Count(SubSeq(text, 1, i - 1), "</ol>")

\* C2: an input of n >= 1 bullet lines and nothing else is rendered as one
\* <ul> ... </ul> wrapping the n <li> elements in line order.
C2_BulletsInOneUl ==
  LET ls == SplitLines(input)
  IN  (pc = "done" /\ \A k \in 1..Len(ls) : BulletLine(ls[k])) =>
        StripNL(text) = <<"<ul>">> \o ItemsOf(ls) \o <<"</ul>">>

\* C3: an input of n >= 1 numbered lines and nothing else is rendered as one
\* <ol> ... </ol> wrapping the n <li> elements in line order.
C3_NumberedInOneOl ==
  LET ls == SplitLines(input)
  IN  (pc = "done" /\ \A k \in 1..Len(ls) : NumberedLine(ls[k])) =>
        StripNL(text) = <<"<ol>">> \o ItemsOf(ls) \o <<"</ol>">>

\* C4: when a list item line is followed by a non-blank line that is no list
\* item, the list's closing tag is emitted before that line's text, which
\* then lies outside every list container and every <li>.  Stated for the
\* input's last two lines (the inputs are closed under dropping final lines).
C4_ListClosedBeforePlainLine ==
  LET ls == SplitLines(input)
      n == Len(ls)
  IN  (pc = "done" /\ n >= 2 /\ ItemLine(ls[n - 1]) /\ PlainLine(ls[n])) =>
        LET tail == Bold(ls[n])
            cut == Len(text) - Len(tail)
            before == SubSeq(text, 1, cut)
        IN  /\ cut >= 0
            /\ From(text, cut + 1) = tail
            /\ \E i \in 1..cut :
                 before[i] \in CloseTags
                 /\ \A j \in i..cut : before[j] # "<li>"
            /\ ~InsideOpen(before, OpenTags, CloseTags)
            /\ ~InsideOpen(before, {"<li>"}, {"</li>"})

\* C5: two bullet lines separated by exactly one blank line stay in one
\* container: one <ul> holding the two complete <li> elements, nothing else
\* between them.
C5_BlankLineKeepsList ==
  LET ls == SplitLines(input)
  IN  (pc = "done" /\ Len(ls) = 3 /\ BulletLine(ls[1]) /\ ls[2] = <<>>
         /\ BulletLine(ls[3])) =>
        StripNL(text) = <<"<ul>">> \o ItemsOf(<<ls[1], ls[3]>>) \o <<"</ul>">>

\* C6: every list container opened in the output is closed by its end:
\* each <ul> has its </ul> after it and each <ol> its </ol>.
C6_EveryListClosed ==
  pc = "done" =>
    \A i \in 1..Len(text) :
      /\ text[i] = "<ul>" =>
           Count(From(text, i + 1), "</ul>") > Count(From(text, i + 1), "<ul>")
      /\ text[i] = "<ol>" =>
           Count(From(text, i + 1), "</ol>") > Count(From(text, i + 1), "<ol>")

\* C7: an input with no paired ** on a line, no line beginning "- " and no
\* line beginning digits-period-space is returned unchanged.
C7_NoMarkersUnchanged ==
  LET ls == SplitLines(input)
  IN  (pc = "done"
         /\ \A k \in 1..Len(ls) : ~HasPair(ls[k]) /\ ~ItemLine(ls[k])) =>
        text = input

\* C8: the bold replace turns every paired **content** of a line into a
\* <strong> wrapper around content, each opening ** paired with the nearest
\* following ** (no ** inside a wrapper, no pair left on a line), and leaves
\* an unpaired ** as literal text: putting ** back for the tags gives the
\* input.
Unbold(s) ==
  ReplaceAll(ReplaceAll(s, <<"<strong>">>, Stars), <<"</strong>">>, Stars)

C8_BoldPairsShortestMatch ==
  pc = "bullets" =>
    /\ Unbold(text) = input
    /\ \A k \in 1..Len(SplitLines(text)) : ~HasPair(SplitLines(text)[k])
    /\ \A i \in 1..Len(text) :
         text[i] = "<strong>" =>
           \E j \in (i + 1)..Len(text) :
             /\ text[j] = "</strong>"
             /\ \A m \in (i + 1)..(j - 1) :
                  text[m] \notin {NL, "<strong>", "</strong>"}
                  /\ ~MatchAt(text, m, Stars)
    /\ Count(text, "<strong>") = Count(text, "</strong>")

\* C8 witness: after the bold replace the text holds two wrappers and a
\* literal ** that had no partner.
C8_Witness ==
  /\ pc = "bullets"
  /\ Count(text, "<strong>") >= 2
  /\ \E i \in 1..Len(text) : MatchAt(text, i, Stars)

\* C9: at every position of the output at most one list container is open:
\* between two opening container tags there is always a closing one.
C9_AtMostOneOpenList ==
  pc = "done" =>
    \A i, j \in 1..Len(text) :
      (i < j /\ text[i] \in OpenTags /\ text[j] \in OpenTags) =>
        \E k \in (i + 1)..(j - 1) : text[k] \in CloseTags

\* C10: whenever feedback is non-null a video is selected and the feedback
\* was generated for that selected video.
C10_FeedbackIsForSelectedVideo ==
  feedback # NoFeedback =>
    selectedVideoFile # "null" /\ feedback.file = selectedVideoFile

====
